---- MODULE Spec2Model ----
(***************************************************************************)
(* A model of the request pipeline of serverless-offline (src/index.js):   *)
(* the route handler of an endpoint, the callback of the lambda context    *)
(* (context.done / succeed / fail), _reply500, _replyTimeout and            *)
(* _clearTimeout, together with the Node timers they arm and clear.        *)
(*                                                                         *)
(* JavaScript runs every callback to completion.  The user's handler is    *)
(* the only code that runs "inside" the route handler: while it is on the  *)
(* stack (running # NoRequest) no timer fires and no other request is      *)
(* served; the steps it can take are its calls of the completion callback  *)
(* and its return or throw.                                                *)
(***************************************************************************)
EXTENDS Integers, Sequences, FiniteSets, TLC

(***************************************************************************)
(* Bounds of the model.                                                    *)
(***************************************************************************)
\* number of requests served (ids are handed out in order of arrival)
MaxRequests == 2
\* cap of the number of "context.done called twice" warnings logged in a run
MaxWarnings == 2

Ids == 1..MaxRequests
\* the value of this.currentRequestId before the first request (undefined)
NoRequest == 0

\* a field an object does not have
NA == "-"

(***************************************************************************)
(* JavaScript values that travel through the pipeline: handler results,    *)
(* the mocked Lambda error, the bodies of the synthetic replies.  Every    *)
(* value is a record with the same fields; t is the JavaScript type.       *)
(***************************************************************************)
Undefined ==
  [t |-> "undefined", url |-> NA, msg |-> NA, errorMessage |-> NA, errorType |-> NA,
   stackTrace |-> NA, offlineInfo |-> NA, text |-> NA]

Null == [Undefined EXCEPT !.t = "null"]

Obj(url, msg) == [Undefined EXCEPT !.t = "object", !.url = url, !.msg = msg]

Str(s) == [Undefined EXCEPT !.t = "string", !.text = s]

\* results a handler passes to done/succeed, or a promise resolves with
Data == {Undefined, Obj("http://x", NA), Obj(NA, "hi")}

(***************************************************************************)
(* Errors: what a handler passes to done/fail, throws, or rejects with.    *)
(* NoErr is any falsy first argument of the callback.                      *)
(***************************************************************************)
NoErr == [truthy |-> FALSE, message |-> NA, type |-> NA, stack |-> NA]

Err(m) == [truthy |-> TRUE, message |-> m, type |-> "Error", stack |-> "at handler"]

Messages == {"a", "ab", "ba", "c"}

Errors == {Err(m) : m \in Messages}

\* the characters of the strings used as messages and as response names
Chars(s) ==
  CASE s = "a" -> <<"a">>
    [] s = "b" -> <<"b">>
    [] s = "c" -> <<"c">>
    [] s = "ab" -> <<"a", "b">>
    [] s = "ba" -> <<"b", "a">>
    [] OTHER -> <<>>

(***************************************************************************)
(* String.prototype.match with a regular expression given as a string: a   *)
(* search for the expression anywhere in the string.  An expression is a   *)
(* sequence of tokens: a character, ".*", "|", "^" or "$".  "|" binds      *)
(* weakest, so it splits the expression into alternatives.                 *)
(***************************************************************************)
RECURSIVE Alternatives(_)
Alternatives(re) ==
  IF \E i \in 1..Len(re) : re[i] = "|"
  THEN LET i == CHOOSE j \in 1..Len(re) : re[j] = "|" /\ \A k \in 1..(j - 1) : re[k] # "|"
       IN {SubSeq(re, 1, i - 1)} \cup Alternatives(SubSeq(re, i + 1, Len(re)))
  ELSE {re}

\* alternative alt matches s from position i (i characters already consumed)
RECURSIVE MatchHere(_, _, _)
MatchHere(alt, s, i) ==
  IF alt = <<>> THEN TRUE
  ELSE LET h == Head(alt)
           rest == Tail(alt)
       IN CASE h = "^" -> i = 0 /\ MatchHere(rest, s, i)
            [] h = "$" -> i = Len(s) /\ MatchHere(rest, s, i)
            [] h = ".*" -> \E j \in i..Len(s) : MatchHere(rest, s, j)
            [] OTHER -> i < Len(s) /\ s[i + 1] = h /\ MatchHere(rest, s, i + 1)

\* s.match(re) is not null
Match(s, re) ==
  \E alt \in Alternatives(re) : \E i \in 0..Len(s) : MatchHere(alt, s, i)

(***************************************************************************)
(* Configuration.  A function of the service (its name and its timeout in  *)
(* milliseconds) and one http endpoint of it.  endpoint.responses is the   *)
(* sequence of <<name, rule>> pairs in the order "for (key in              *)
(* endpoint.responses)" enumerates them; <<>> is an endpoint without       *)
(* responses.  In a rule, statusCode 0, selectionPattern <<>>,             *)
(* responseParameters <<>> and responseTemplates <<>> are absent fields.   *)
(*   A response parameter is key |-> value: the key is the sequence of     *)
(* its dot-separated segments, the value is its segments and the number   *)
(* of layers of single quotes written around it.                           *)
(***************************************************************************)
Functions == {[funName |-> "hello", funTimeout |-> 1000]}

Rule(status, pattern, parameters, templates) ==
  [statusCode |-> status, selectionPattern |-> pattern,
   responseParameters |-> parameters, responseTemplates |-> templates]

Param(key, segs, quotes) == [key |-> key, value |-> [segs |-> segs, quotes |-> quotes]]

HeaderKey(name) == <<"method", "response", "header", name>>

\* "method.response.header.Location": "integration.response.body.url"
LocationFromBody == Param(HeaderKey("Location"), <<"integration", "response", "body", "url">>, 0)
\* "method.response.header.Content-Type": "'text/plain'"
ContentTypeLiteral == Param(HeaderKey("Content-Type"), <<"text/plain">>, 1)
\* "method.response.header.X": "integration.response.header.x"
UnsupportedSource == Param(HeaderKey("X-Up"), <<"integration", "response", "header", "x">>, 0)

\* "method.response.header.Location": "'first'"
LocationFirst == Param(HeaderKey("Location"), <<"first">>, 1)
\* "method.response.headers.Location": "'second'"
LocationSecond == Param(<<"method", "response", "headers", "Location">>, <<"second">>, 1)
\* "method.response.header.Content-Type": "''"
ContentTypeEmpty == Param(HeaderKey("Content-Type"), <<"">>, 1)
\* "method.response.header.X-Up": "integration.response.body.errorMessage"
ErrorMessageFromBody ==
  Param(HeaderKey("X-Up"), <<"integration", "response", "body", "errorMessage">>, 0)
\* "method.response.header.X-Up": "integration.response.body"
WholeBody == Param(HeaderKey("X-Up"), <<"integration", "response", "body">>, 0)

\* templates: "" is an empty template, "$bad" one whose rendering fails
HtmlTemplate == [contentType |-> "text/html", template |-> "$ok"]
PlainTemplate == [contentType |-> "text/plain", template |-> "$plain"]
BadTemplate == [contentType |-> "text/xml", template |-> "$bad"]
EmptyTemplate == [contentType |-> "text/html", template |-> ""]

PlainRule == Rule(0, <<>>, <<>>, <<>>)

EndpointPlain ==
  [responses |-> << <<"default", PlainRule>>,
                    <<"a", Rule(400, <<>>, <<>>, <<>>)>> >>]

EndpointNone == [responses |-> <<>>]

EndpointAlternation ==
  [responses |-> << <<"default", Rule(200, <<>>, <<>>, <<>>)>>,
                    <<"NotFound", Rule(404, <<"a", "|", "c">>, <<>>, <<>>)>>,
                    <<"ab", Rule(400, <<>>, <<>>, <<>>)>> >>]

EndpointWildcard ==
  [responses |-> << <<"default", Rule(0, <<>>, <<LocationFromBody>>, <<HtmlTemplate>>)>>,
                    <<"first", Rule(404, <<"a", ".*">>, <<>>, <<>>)>>,
                    <<"ab", Rule(400, <<>>, <<>>, <<>>)>> >>]

EndpointContentType ==
  [responses |-> << <<"default", Rule(0, <<>>, <<ContentTypeLiteral>>, <<>>)>> >>]

EndpointUnsupported ==
  [responses |-> << <<"default", Rule(0, <<>>, <<UnsupportedSource>>, <<>>)>>,
                    <<"a", Rule(400, <<>>, <<>>, <<>>)>> >>]

EndpointTemplates ==
  [responses |-> << <<"default", Rule(0, <<>>, <<>>, <<HtmlTemplate, PlainTemplate>>)>>,
                    <<"a", Rule(400, <<>>, <<ErrorMessageFromBody>>, <<BadTemplate, HtmlTemplate>>)>>,
                    <<"c", Rule(404, <<>>, <<>>, <<EmptyTemplate>>)>> >>]

EndpointSameHeader ==
  [responses |-> << <<"default", Rule(200, <<>>, <<LocationFirst, LocationSecond>>, <<>>)>>,
                    <<"a", Rule(400, <<>>, <<ContentTypeEmpty>>, <<>>)>> >>]

EndpointWholeBody ==
  [responses |-> << <<"default", Rule(200, <<>>, <<WholeBody, ContentTypeLiteral>>, <<>>)>> >>]

\* endpoint.responses && endpoint.responses[name]
HasResponse(ep, name) == \E i \in 1..Len(ep.responses) : ep.responses[i][1] = name

ResponseOf(ep, name) ==
  LET i == CHOOSE j \in 1..Len(ep.responses) : ep.responses[j][1] = name
  IN ep.responses[i][2]

(***************************************************************************)
(* The held hapi response of a request: the fields the code assigns        *)
(* (statusCode, source), its headers, and the log of the calls of          *)
(* response.send(): each entry is the response as it was when send() was   *)
(* called, with the function that called it and the response name used.    *)
(***************************************************************************)
Lower(name) ==
  CASE name = "Content-Type" -> "content-type"
    [] name = "Location" -> "location"
    [] name = "X-Up" -> "x-up"
    [] OTHER -> name

HeaderNames == {"content-type", "location", "x-up"}

NewResponse ==
  [statusCode |-> 200, source |-> Null, headers |-> [h \in HeaderNames |-> NA], sent |-> <<>>]

\* response.header(key, value, { override }): hapi stores headers under lowercased names
header(resp, key, value, override) ==
  IF override \/ resp.headers[Lower(key)] \in {NA, ""}
  THEN [resp EXCEPT !.headers[Lower(key)] = value]
  ELSE resp

\* response.send()
send(resp, via, responseName) ==
  [resp EXCEPT !.sent = Append(@, [statusCode |-> resp.statusCode, source |-> resp.source,
                                   headers |-> resp.headers, via |-> via,
                                   responseName |-> responseName])]

(***************************************************************************)
(* Errors the pipeline itself raises.                                      *)
(***************************************************************************)
\* the call of the undeclared name logPluginIssue
ReferenceError ==
  [truthy |-> TRUE, message |-> "logPluginIssue is not defined", type |-> "ReferenceError",
   stack |-> "at callback"]

\* .toString() of undefined or null
TypeError ==
  [truthy |-> TRUE, message |-> "Cannot read property 'toString'", type |-> "TypeError",
   stack |-> "at callback"]

\* _getArrayStackTrace(err.stack): null without a stack, else its trimmed lines
_getArrayStackTrace(stack) == IF stack = NA THEN "null" ELSE stack

\* the mocked Lambda error built from the first argument of the callback
ErrorResult(err) ==
  [Undefined EXCEPT !.t = "object", !.errorMessage = err.message, !.errorType = err.type,
                    !.stackTrace = _getArrayStackTrace(err.stack)]

OfflineInfo == "If you believe this is an issue with the plugin please submit it"

\* the body of _reply500
SyntheticError(message, err) ==
  [Undefined EXCEPT !.t = "object", !.errorMessage = message, !.errorType = err.type,
                    !.stackTrace = _getArrayStackTrace(err.stack), !.offlineInfo = OfflineInfo]

LoadMessage(funName) == "Error while loading " \o funName
TemplateMessage(contentType, funName) ==
  "Error while parsing template \"" \o contentType \o "\" for " \o funName
UncaughtMessage(funName) == "Uncaught error in your '" \o funName \o "' handler"

\* the body of _replyTimeout
TimeoutBody(funName, funTimeout) ==
  Str("[Serverless-Offline] Your handler '" \o funName \o "' timed out after "
      \o ToString(funTimeout) \o "ms.")

(***************************************************************************)
(* Response selection: the name of the response used for a callback with   *)
(* first argument err.                                                     *)
(***************************************************************************)
\* errorMessage.match(`^${endpoint.responses[key].selectionPattern || key}$`)
SelectionMatches(errorMessage, key, rule) ==
  LET pattern == IF rule.selectionPattern # <<>> THEN rule.selectionPattern ELSE Chars(key)
  IN Match(Chars(errorMessage), <<"^">> \o pattern \o <<"$">>)

\* the for loop over the keys of endpoint.responses, from position i on
RECURSIVE ScanResponses(_, _, _)
ScanResponses(responses, errorMessage, i) ==
  IF i > Len(responses) THEN "default"
  ELSE IF responses[i][1] = "default" THEN ScanResponses(responses, errorMessage, i + 1)
  ELSE IF SelectionMatches(errorMessage, responses[i][1], responses[i][2])
       THEN responses[i][1]
       ELSE ScanResponses(responses, errorMessage, i + 1)

SelectResponseName(ep, err) ==
  IF err.truthy THEN ScanResponses(ep.responses, err.message, 1) ELSE "default"

(***************************************************************************)
(* Response parameters.                                                    *)
(***************************************************************************)
\* String.prototype.startsWith on a segment of a dotted name
SegStartsWith(seg, prefix) == seg \in {prefix, prefix \o "s", prefix \o "X"}

\* jsonPath(result, path): the sub-value of result at a dotted path
jsonPath(result, path) ==
  IF result.t # "object" \/ Len(path) # 1 THEN Undefined
  ELSE CASE path[1] = "url" /\ result.url # NA -> Str(result.url)
         [] path[1] = "msg" /\ result.msg # NA -> Str(result.msg)
         [] path[1] = "errorMessage" /\ result.errorMessage # NA -> Str(result.errorMessage)
         [] path[1] = "errorType" /\ result.errorType # NA -> Str(result.errorType)
         [] OTHER -> Undefined

\* value.toString(): a string, or "throw" for undefined and null
toString(v) ==
  CASE v.t = "string" -> v.text
    [] v.t = "object" -> "[object Object]"
    [] OTHER -> "throw"

\* Array.prototype.join('.')
RECURSIVE Join(_)
Join(segs) ==
  IF segs = <<>> THEN ""
  ELSE IF Len(segs) = 1 THEN segs[1]
  ELSE segs[1] \o "." \o Join(Tail(segs))

\* a string between n layers of single quotes
RECURSIVE Quoted(_, _)
Quoted(n, str) == IF n = 0 THEN str ELSE "'" \o Quoted(n - 1, str) \o "'"

\* value.match(/^'.*'$/) ? value.slice(1, -1) : value
StripQuotes(value) ==
  IF value.quotes > 0 THEN Quoted(value.quotes - 1, Join(value.segs))
  ELSE Join(value.segs)

\* the warnings of an entry the plugin does not support
UnsupportedLeftHand == "Offline plugin only supports method.response.header.PARAM_NAME"
UnsupportedRightHand == "Offline plugin only supports integration.response.body[.JSON_path]"

\* one entry of responseParameters; the result is the response, the error thrown, the warnings
ProcessParameter(resp, param, result) ==
  LET key == param.key
      value == param.value
      isHeader == /\ Len(key) >= 4
                  /\ key[1] = "method" /\ key[2] = "response" /\ SegStartsWith(key[3], "header")
                  /\ key[4] # ""
      headerName == Join(SubSeq(key, 4, Len(key)))
      fromIntegration == /\ value.quotes = 0
                         /\ Len(value.segs) >= 2
                         /\ value.segs[1] = "integration"
                         /\ SegStartsWith(value.segs[2], "response")
      fromBody == Len(value.segs) >= 3 /\ value.segs[3] = "body"
      picked == IF Len(value.segs) >= 4 /\ value.segs[4] # ""
                THEN jsonPath(result, SubSeq(value.segs, 4, Len(value.segs)))
                ELSE result
  IN IF ~isHeader
     THEN [resp |-> resp, threw |-> ReferenceError, logs |-> {UnsupportedLeftHand}]
     ELSE IF fromIntegration
          THEN IF fromBody
               THEN IF toString(picked) = "throw"
                    THEN [resp |-> resp, threw |-> TypeError, logs |-> {}]
                    ELSE [resp |-> header(resp, headerName, toString(picked), TRUE),
                          threw |-> NoErr, logs |-> {}]
               ELSE [resp |-> resp, threw |-> ReferenceError, logs |-> {UnsupportedRightHand}]
          ELSE [resp |-> header(resp, headerName, StripQuotes(value), TRUE),
                threw |-> NoErr, logs |-> {}]

\* responseParametersKeys.forEach, from entry i on
RECURSIVE ProcessParameters(_, _, _, _)
ProcessParameters(resp, params, result, i) ==
  IF i > Len(params) THEN [resp |-> resp, threw |-> NoErr, logs |-> {}]
  ELSE LET one == ProcessParameter(resp, params[i], result)
       IN IF one.threw.truthy THEN one
          ELSE LET rest == ProcessParameters(one.resp, params, result, i + 1)
               IN [rest EXCEPT !.logs = @ \cup one.logs]

(***************************************************************************)
(* Response templates.                                                     *)
(***************************************************************************)
\* renderVelocityTemplateObject({ root: template }, context).root
RenderFails(template) == template = "$bad"

Rendered(template, result) == [result EXCEPT !.t = "rendered", !.text = template]

\* the message logged when the rendering of a response template throws
ResponseTemplateError == "Error while parsing responseTemplate"
NoStatusCodeWarning == "Warning: No statusCode found for response"

\* mutant: the error of the rendering is not caught, the body is lost
RenderTemplateLosesResult(template, result) ==
  IF RenderFails(template) THEN [result |-> Undefined, logs |-> {}]
  ELSE [result |-> Rendered(template, result), logs |-> {}]

\* try { result = renderVelocityTemplateObject(...).root } catch (error) { serverlessLog(...) }
RenderTemplate(template, result) ==
  IF RenderFails(template) THEN [result |-> result, logs |-> {ResponseTemplateError}]
  ELSE [result |-> Rendered(template, result), logs |-> {}]

DefaultContentType == "application/json"

(***************************************************************************)
(* The state one request's functions work on: c.done and c.timeout are     *)
(* this.requests[requestId], c.timer is the Node timer c.timeout refers    *)
(* to, c.resp the held response, c.warnings the number of "context.done    *)
(* called twice" warnings logged for the request, c.logs the other         *)
(* messages logged for it.                                                 *)
(*   timeout is "undefined" until the route handler assigns it, "null"     *)
(* when timeouts are disabled, else "Timeout", a timer object.  A timer is *)
(* "none" (not created), "armed", "cleared" by clearTimeout, or "called":  *)
(* Node sets timer._called when it runs the timer's callback.              *)
(***************************************************************************)
\* mutant: the timer's _called mark is not looked at
_clearTimeoutIgnoresCalled(c) == FALSE

\* _clearTimeout: its result (true when the timer has already been called) ...
_clearTimeout(c) == c.timeout = "Timeout" /\ c.timer = "called"

\* mutant: the timer is left armed
clearTimeoutNoOp(c) == c

\* ... and its effect, clearTimeout(timeout)
clearTimeout(c) ==
  IF c.timeout = "Timeout" /\ c.timer = "armed" THEN [c EXCEPT !.timer = "cleared"] ELSE c

\* mutant: the request is not marked done
_reply500LeavesPending(c, message, err) ==
  LET c1 == clearTimeout(c)
      r == [c1.resp EXCEPT !.statusCode = 200, !.source = SyntheticError(message, err)]
  IN [c1 EXCEPT !.resp = send(r, "_reply500", NA)]

\* mutant: the reply carries status 500
_reply500Status500(c, message, err) ==
  LET c1 == [clearTimeout(c) EXCEPT !.done = TRUE]
      r == [c1.resp EXCEPT !.statusCode = 500, !.source = SyntheticError(message, err)]
  IN [c1 EXCEPT !.resp = send(r, "_reply500", NA)]

\* _reply500(response, message, err, requestId)
_reply500(c, message, err) ==
  IF _clearTimeout(c) THEN c
  ELSE LET c1 == [clearTimeout(c) EXCEPT !.done = TRUE]
           r == [c1.resp EXCEPT !.statusCode = 200, !.source = SyntheticError(message, err)]
       IN [c1 EXCEPT !.resp = send(r, "_reply500", NA)]

\* mutant: no comparison with this.currentRequestId
_replyTimeoutUnguarded(c, f, requestId, current) ==
  LET r == [c.resp EXCEPT !.statusCode = 503, !.source = TimeoutBody(f.funName, f.funTimeout)]
  IN [c EXCEPT !.done = TRUE, !.resp = send(r, "_replyTimeout", NA)]

\* _replyTimeout(response, funName, funTimeout, requestId), run by the timer
_replyTimeout(c, f, requestId, current) ==
  IF current # requestId THEN c
  ELSE LET r == [c.resp EXCEPT !.statusCode = 503,
                               !.source = TimeoutBody(f.funName, f.funTimeout)]
       IN [c EXCEPT !.done = TRUE, !.resp = send(r, "_replyTimeout", NA)]

\* mutant: no fallback to 200
StatusCodeUnset(chosenResponse) == chosenResponse.statusCode

\* chosenResponse && chosenResponse.statusCode || 200
StatusCode(chosenResponse) ==
  IF chosenResponse.statusCode # 0 THEN chosenResponse.statusCode ELSE 200

\* the callback from "let result = data" to response.send(), for a request just marked done
Respond(c, ep, err, data) ==
  LET responseName == SelectResponseName(ep, err)
      chosenResponse == IF HasResponse(ep, responseName) THEN ResponseOf(ep, responseName)
                        ELSE PlainRule
      result0 == IF err.truthy THEN ErrorResult(err) ELSE data
      pp == ProcessParameters(c.resp, chosenResponse.responseParameters, result0, 1)
      templates == chosenResponse.responseTemplates
      responseContentType == IF templates # <<>> THEN templates[1].contentType
                             ELSE DefaultContentType
      rt == IF templates # <<>> /\ templates[1].template # ""
            THEN RenderTemplate(templates[1].template, result0)
            ELSE [result |-> result0, logs |-> {}]
      result == rt.result
      statusCode == StatusCode(chosenResponse)
      noStatus == IF chosenResponse.statusCode = 0 THEN {NoStatusCodeWarning} ELSE {}
      r1 == header(pp.resp, "Content-Type", responseContentType, FALSE)
      r2 == [r1 EXCEPT !.statusCode = statusCode, !.source = result]
  IN IF pp.threw.truthy
     THEN [c |-> [c EXCEPT !.resp = pp.resp, !.logs = @ \cup pp.logs], threw |-> pp.threw]
     ELSE [c |-> [c EXCEPT !.resp = send(r2, "callback", responseName),
                           !.logs = @ \cup pp.logs \cup rt.logs \cup noStatus],
           threw |-> NoErr]

\* the callback given to createLambdaContext: (err, data) => { ... }
Callback(c, ep, err, data) ==
  IF _clearTimeout(c) THEN [c |-> c, threw |-> NoErr]
  ELSE LET c1 == clearTimeout(c)
       IN IF c1.done THEN [c |-> [c1 EXCEPT !.warnings = @ + 1], threw |-> NoErr]
          ELSE Respond([c1 EXCEPT !.done = TRUE], ep, err, data)

(***************************************************************************)
(* The lambda context handed to the handler: done is the callback,         *)
(* succeed(res) is done(null, res), fail(err) is done(err, null).  A call  *)
(* is the operation with its arguments; CallArgs gives the arguments the   *)
(* callback receives.                                                      *)
(***************************************************************************)
done(err, data) == [op |-> "done", err |-> err, data |-> data]
succeed(res) == [op |-> "succeed", err |-> NoErr, data |-> res]
fail(err) == [op |-> "fail", err |-> err, data |-> Null]

CallArgs(call) ==
  CASE call.op = "succeed" -> [err |-> NoErr, data |-> call.data]
    [] call.op = "fail" -> [err |-> call.err, data |-> Null]
    [] OTHER -> [err |-> call.err, data |-> call.data]

\* what a handler returns
Returned(kind, error) == [kind |-> kind, error |-> error]

Returns(errors) ==
  {Returned("value", NoErr), Returned("promise", NoErr)} \cup {Returned("error", e) : e \in errors}

\* what createHandler or the rendering of the request template throws
LoadError ==
  [truthy |-> TRUE, message |-> "Cannot find module", type |-> "Error", stack |-> "at require"]

(***************************************************************************)
(* State.                                                                  *)
(***************************************************************************)
VARIABLES
  options,           \* this.options: [noTimeout]
  serviceRuntime,    \* this.service.provider.runtime
  fun,               \* funOptions of the function: [funName, funTimeout]
  endpoint,          \* the http event of the function
  authorizer,        \* endpoint.authorizer
  prefix,            \* the prefix option as given
  epath,             \* endpoint.path
  process,           \* the Node process: [phase, log]
  server,            \* the hapi server: [routes, notFoundRoute, listening]
  requests,          \* this.requests: request id -> [done, timeout]
  currentRequestId,  \* this.currentRequestId
  timers,            \* the Node timer of each request
  responses,         \* the held response of each request
  warnings,          \* "context.done called twice" warnings logged, per request
  logs,              \* the other messages serverlessLog has written, per request
  handlers,          \* the handler invocation of each request: [pc, promise]
  uncaught           \* requests whose callback threw with no caller to catch it

vars == <<options, serviceRuntime, fun, endpoint, authorizer, prefix, epath, process, server,
          requests, currentRequestId, timers, responses, warnings, logs, handlers, uncaught>>

\* what no request changes: the configuration, and the process and server once started
config ==
  <<options, serviceRuntime, fun, endpoint, authorizer, prefix, epath, process, server>>

Runtimes == {"nodejs", "nodejs4.3", "babel"}

(***************************************************************************)
(* start().  An authorizer is undefined, a string (the name of a function) *)
(* or an object with an arn or a name.  The process is "new" before        *)
(* start(), "running" after it, "exited" once process.exit was called.     *)
(***************************************************************************)
Authorizer(t, arn, name) == [t |-> t, arn |-> arn, name |-> name]

NoAuthorizer == Authorizer("undefined", NA, NA)

Authorizers ==
  {NoAuthorizer, Authorizer("string", NA, "auth"), Authorizer("string", NA, "missing"),
   Authorizer("object", "arn:aws:lambda:remote", NA), Authorizer("object", NA, "auth"),
   Authorizer("object", NA, "missing"), Authorizer("object", "arn:aws:lambda:remote", "auth")}

\* the keys of this.service.functions
LocalFunctions == {"hello", "auth"}

UnsupportedRuntimeWarning == "Warning: found unsupported runtime"
NonLocalAuthorizer == "Serverless Offline does not support non local authorizers"
NoAuthorizationFunction == "Authorization function does not exist"

NewProcess == [phase |-> "new", log |-> {}]

NewServer == [routes |-> {}, notFoundRoute |-> FALSE, listening |-> FALSE]

(***************************************************************************)
(* Paths.  A string of a path is the sequence of its pieces: "/" or a      *)
(* non-empty run of other characters; <<>> is the empty string, which is   *)
(* also what an option that was not given counts as.                       *)
(***************************************************************************)
\* str.startsWith('/') and str.endsWith('/')
startsWith(str) == str # <<>> /\ str[1] = "/"
endsWith(str) == str # <<>> /\ str[Len(str)] = "/"

\* the prefix option as given on the command line, and endpoint.path
Prefixes == {<<>>, <<"dev">>, <<"/", "dev">>, <<"dev", "/">>, <<"/", "dev", "/">>}
Paths == {<<"users">>, <<"/", "users">>, <<"/", "users", "/">>, <<"/">>}

\* this.options.prefix after _setOptions
_setOptions(given) ==
  LET defaulted == IF given = <<>> THEN <<"/">> ELSE given
      leading == IF ~startsWith(defaulted) THEN <<"/">> \o defaulted ELSE defaulted
  IN IF ~endsWith(leading) THEN leading \o <<"/">> ELSE leading

\* fullPath: threw when the code reaches path.slice, which the path module does not have
FullPath(optionsPrefix, endpointPath) ==
  LET fullPath ==
        optionsPrefix \o (IF startsWith(endpointPath) THEN Tail(endpointPath) ELSE endpointPath)
  IN IF fullPath # <<"/">> /\ endsWith(fullPath)
     THEN [threw |-> TRUE, path |-> fullPath]
     ELSE [threw |-> FALSE, path |-> fullPath]

\* the route of the endpoint of function funName, with its auth strategy
Route(path, funName, strategy) == [path |-> path, funName |-> funName, auth |-> strategy]

\* mutant: _logAndExit logs without ending the process
_createRoutesWithoutExit(runtime, optionsPrefix, f, endpointPath, authz) ==
  LET full == FullPath(optionsPrefix, endpointPath)
  IN IF runtime \notin Runtimes
     THEN [routes |-> {}, exited |-> FALSE, threw |-> FALSE, log |-> {UnsupportedRuntimeWarning}]
     ELSE IF full.threw
     THEN [routes |-> {}, exited |-> FALSE, threw |-> TRUE, log |-> {}]
     ELSE IF authz.t = "undefined"
     THEN [routes |-> {Route(full.path, f.funName, NA)}, exited |-> FALSE, threw |-> FALSE,
           log |-> {}]
     ELSE [routes |-> {Route(full.path, f.funName, authz.name)}, exited |-> FALSE,
           threw |-> FALSE,
           log |-> IF authz.t = "object" /\ authz.arn # NA THEN {NonLocalAuthorizer}
                   ELSE IF authz.name \notin LocalFunctions THEN {NoAuthorizationFunction}
                   ELSE {}]

\* mutant: the runtime is not looked at
_createRoutesAnyRuntime(runtime, optionsPrefix, f, endpointPath, authz) ==
  [routes |-> {Route(FullPath(optionsPrefix, endpointPath).path, f.funName, NA)}, exited |-> FALSE,
   threw |-> FALSE, log |-> {}]

\* _createRoutes(): the routes registered, whether process.exit was called, whether it
\* threw, the messages
_createRoutes(runtime, optionsPrefix, f, endpointPath, authz) ==
  LET full == FullPath(optionsPrefix, endpointPath)
  IN IF runtime \notin Runtimes
     THEN [routes |-> {}, exited |-> FALSE, threw |-> FALSE, log |-> {UnsupportedRuntimeWarning}]
     ELSE IF full.threw
     THEN [routes |-> {}, exited |-> FALSE, threw |-> TRUE, log |-> {}]
     ELSE IF authz.t = "undefined"
     THEN [routes |-> {Route(full.path, f.funName, NA)}, exited |-> FALSE, threw |-> FALSE,
           log |-> {}]
     ELSE IF authz.t = "object" /\ authz.arn # NA
     THEN [routes |-> {}, exited |-> TRUE, threw |-> FALSE, log |-> {NonLocalAuthorizer}]
     ELSE IF authz.name \notin LocalFunctions
     THEN [routes |-> {}, exited |-> TRUE, threw |-> FALSE, log |-> {NoAuthorizationFunction}]
     ELSE [routes |-> {Route(full.path, f.funName, authz.name)}, exited |-> FALSE,
           threw |-> FALSE, log |-> {}]

\* this.serverless.version
Versions == {"1.0.0", "0.5.6"}

\* version.startsWith('1.')
IsVersion1(version) == version = "1.0.0"

UnsupportedVersion == "Offline requires Serverless v1.x.x"

\* the process and the server after start(): the check of the version, _setOptions,
\* _createRoutes, _create404Route, _listen.  "crashed": start() ended with an exception
Started(version, runtime, given, f, endpointPath, authz) ==
  LET cr == _createRoutes(runtime, _setOptions(given), f, endpointPath, authz)
  IN IF ~IsVersion1(version)
     THEN [process |-> [phase |-> "exited", log |-> {UnsupportedVersion}], server |-> NewServer]
     ELSE IF cr.threw
     THEN [process |-> [phase |-> "crashed", log |-> cr.log], server |-> NewServer]
     ELSE IF cr.exited
     THEN [process |-> [phase |-> "exited", log |-> cr.log],
           server |-> [NewServer EXCEPT !.routes = cr.routes]]
     ELSE [process |-> [phase |-> "running", log |-> cr.log],
           server |-> [routes |-> cr.routes, notFoundRoute |-> TRUE, listening |-> TRUE]]

\* a request reaches the route handler of the function
Serving ==
  /\ process.phase = "running"
  /\ server.listening
  /\ \E route \in server.routes : route.funName = fun.funName

\* no request yet
NoRequests ==
  /\ requests = <<>>
  /\ currentRequestId = NoRequest
  /\ timers = [id \in Ids |-> "none"]
  /\ responses = [id \in Ids |-> NewResponse]
  /\ warnings = [id \in Ids |-> 0]
  /\ logs = [id \in Ids |-> {}]
  /\ handlers = [id \in Ids |-> [pc |-> "idle", promise |-> "none"]]
  /\ uncaught = {}

\* the state after start(): no request yet
InitWith(runtimes, endpoints) ==
  /\ options \in [noTimeout : BOOLEAN]
  /\ serviceRuntime \in runtimes
  /\ fun \in Functions
  /\ endpoint \in endpoints
  /\ authorizer = NoAuthorizer
  /\ prefix = <<>>
  /\ epath = <<"users">>
  /\ process = Started("1.0.0", serviceRuntime, prefix, fun, epath, authorizer).process
  /\ server = Started("1.0.0", serviceRuntime, prefix, fun, epath, authorizer).server
  /\ NoRequests

\* the request's state as its functions see it, and its write-back
Ctx(id) ==
  [done |-> requests[id].done, timeout |-> requests[id].timeout, timer |-> timers[id],
   resp |-> responses[id], warnings |-> warnings[id], logs |-> logs[id]]

Store(id, c) ==
  /\ requests' = [requests EXCEPT ![id] = [done |-> c.done, timeout |-> c.timeout]]
  /\ timers' = [timers EXCEPT ![id] = c.timer]
  /\ responses' = [responses EXCEPT ![id] = c.resp]
  /\ warnings' = [warnings EXCEPT ![id] = c.warnings]
  /\ logs' = [logs EXCEPT ![id] = c.logs]

RECURSIVE SumTo(_, _)
SumTo(f, n) == IF n = 0 THEN 0 ELSE f[n] + SumTo(f, n - 1)

TotalWarnings == SumTo(warnings, MaxRequests)

\* a handler is on the stack: nothing else runs
Running == \E id \in Ids : handlers[id].pc = "running"

\* mutant: the timer is armed whatever the option
ArmTimeoutAlways(c, noTimeout) == [c EXCEPT !.timeout = "Timeout", !.timer = "armed"]

\* this.requests[requestId].timeout = this.options.noTimeout ? null : setTimeout(...)
ArmTimeout(c, noTimeout) ==
  IF noTimeout THEN [c EXCEPT !.timeout = "null"]
  ELSE [c EXCEPT !.timeout = "Timeout", !.timer = "armed"]

(***************************************************************************)
(* The route handler, up to the call of the handler.  load is "ok", or     *)
(* the step that throws: "loadError" (createHandler) or "templateError"    *)
(* (the request template).                                                 *)
(***************************************************************************)
RouteHandler(load, maxRequests) ==
  LET requestId == Len(requests) + 1
      contentType == DefaultContentType   \* request.mime || defaultContentType
      c0 == [done |-> FALSE, timeout |-> "undefined", timer |-> "none",
             resp |-> NewResponse, warnings |-> 0, logs |-> {}]
      message == IF load = "loadError" THEN LoadMessage(fun.funName)
                 ELSE TemplateMessage(contentType, fun.funName)
      c == IF load = "ok" THEN ArmTimeout(c0, options.noTimeout)
           ELSE _reply500(c0, message, LoadError)
  IN /\ Serving
     /\ ~Running
     /\ requestId <= maxRequests
     /\ requests' = Append(requests, [done |-> c.done, timeout |-> c.timeout])
     /\ currentRequestId' = requestId
     /\ timers' = [timers EXCEPT ![requestId] = c.timer]
     /\ responses' = [responses EXCEPT ![requestId] = c.resp]
     /\ warnings' = [warnings EXCEPT ![requestId] = c.warnings]
     /\ logs' = [logs EXCEPT ![requestId] = c.logs]
     /\ handlers' = [handlers EXCEPT ![requestId].pc = IF load = "ok" THEN "running"
                                                        ELSE "notInvoked"]
     /\ UNCHANGED <<config, uncaught>>

(***************************************************************************)
(* The handler, while it is on the stack.                                  *)
(***************************************************************************)
\* it calls done, succeed or fail; catches: it catches what the callback throws
HandlerCalls(id, call, catches) ==
  LET args == CallArgs(call)
      r == Callback(Ctx(id), endpoint, args.err, args.data)
      escapes == r.threw.truthy /\ ~catches
  IN /\ id \in DOMAIN requests
     /\ handlers[id].pc = "running"
     /\ TotalWarnings < MaxWarnings
     /\ Store(id, IF escapes THEN _reply500(r.c, UncaughtMessage(fun.funName), r.threw)
                  ELSE r.c)
     /\ handlers' = [handlers EXCEPT ![id].pc = IF escapes THEN "threw" ELSE @]
     /\ UNCHANGED <<config, currentRequestId, uncaught>>

\* mutant: promises are supported under every runtime
PromiseSupportAnyRuntime(runtime, isDone) == ~isDone

\* serviceRuntime === 'babel' && !this.requests[requestId].done
PromiseSupport(runtime, isDone) == runtime = "babel" /\ ~isDone

\* it returns x: a promise, an Error, or any other value
HandlerReturns(id, x) ==
  LET promises == PromiseSupport(serviceRuntime, requests[id].done)
      r == IF promises /\ x.kind = "error"
           THEN Callback(Ctx(id), endpoint, x.error, Null)
           ELSE [c |-> Ctx(id), threw |-> NoErr]
  IN /\ id \in DOMAIN requests
     /\ handlers[id].pc = "running"
     /\ Store(id, IF r.threw.truthy
                  THEN _reply500(r.c, UncaughtMessage(fun.funName), r.threw)
                  ELSE r.c)
     /\ handlers' = [handlers EXCEPT ![id].pc = IF r.threw.truthy THEN "threw" ELSE "returned",
                                     ![id].promise = IF promises /\ x.kind = "promise"
                                                     THEN "pending" ELSE @]
     /\ UNCHANGED <<config, currentRequestId, uncaught>>

\* it throws error
HandlerThrows(id, error) ==
  /\ id \in DOMAIN requests
  /\ handlers[id].pc = "running"
  /\ Store(id, _reply500(Ctx(id), UncaughtMessage(fun.funName), error))
  /\ handlers' = [handlers EXCEPT ![id].pc = "threw"]
  /\ UNCHANGED <<config, currentRequestId, uncaught>>

(***************************************************************************)
(* After the handler has left the stack.                                   *)
(***************************************************************************)
\* something the handler started calls done, succeed or fail
AsyncCall(id, call) ==
  LET args == CallArgs(call)
      r == Callback(Ctx(id), endpoint, args.err, args.data)
  IN /\ ~Running
     /\ id \in DOMAIN requests
     /\ handlers[id].pc \in {"returned", "threw"}
     /\ TotalWarnings < MaxWarnings
     /\ Store(id, r.c)
     /\ uncaught' = IF r.threw.truthy THEN uncaught \cup {id} ELSE uncaught
     /\ UNCHANGED <<config, currentRequestId, handlers>>

\* x.then(lambdaContext.succeed).catch(lambdaContext.fail), x resolved with data
PromiseResolves(id, data) ==
  LET r1 == Callback(Ctx(id), endpoint, NoErr, data)
      r == IF r1.threw.truthy THEN Callback(r1.c, endpoint, r1.threw, Null) ELSE r1
  IN /\ ~Running
     /\ id \in DOMAIN requests
     /\ handlers[id].promise = "pending"
     /\ Store(id, r.c)
     /\ handlers' = [handlers EXCEPT ![id].promise = "settled"]
     /\ uncaught' = IF r.threw.truthy THEN uncaught \cup {id} ELSE uncaught
     /\ UNCHANGED <<config, currentRequestId>>

\* x.then(lambdaContext.succeed).catch(lambdaContext.fail), x rejected with error
PromiseRejects(id, error) ==
  LET r == Callback(Ctx(id), endpoint, error, Null)
  IN /\ ~Running
     /\ id \in DOMAIN requests
     /\ handlers[id].promise = "pending"
     /\ Store(id, r.c)
     /\ handlers' = [handlers EXCEPT ![id].promise = "settled"]
     /\ uncaught' = IF r.threw.truthy THEN uncaught \cup {id} ELSE uncaught
     /\ UNCHANGED <<config, currentRequestId>>

\* Node runs the timer of the request: it marks it called and calls _replyTimeout
TimerFires(id) ==
  /\ ~Running
  /\ id \in DOMAIN requests
  /\ timers[id] = "armed"
  /\ Store(id, _replyTimeout([Ctx(id) EXCEPT !.timer = "called"], fun, id, currentRequestId))
  /\ UNCHANGED <<config, currentRequestId, handlers, uncaught>>

(***************************************************************************)
(* Specifications.                                                         *)
(***************************************************************************)
Loads == {"ok", "loadError", "templateError"}

\* the calls, results and errors of the handlers of Spec
RaceCalls == {succeed(Obj(NA, "hi")), fail(Err("a")), done(Err("a"), Obj(NA, "hi"))}
RaceErrors == {Err("a")}
RaceData == {Obj(NA, "hi")}

Init == InitWith({"nodejs", "babel"}, {EndpointPlain, EndpointUnsupported})

Next ==
  \/ \E load \in Loads : RouteHandler(load, MaxRequests)
  \/ \E id \in Ids, call \in RaceCalls, catches \in BOOLEAN : HandlerCalls(id, call, catches)
  \/ \E id \in Ids, x \in Returns(RaceErrors) : HandlerReturns(id, x)
  \/ \E id \in Ids, error \in RaceErrors : HandlerThrows(id, error)
  \/ \E id \in Ids, call \in RaceCalls : AsyncCall(id, call)
  \/ \E id \in Ids, data \in RaceData : PromiseResolves(id, data)
  \/ \E id \in Ids, error \in RaceErrors : PromiseRejects(id, error)
  \/ \E id \in Ids : TimerFires(id)

Spec == Init /\ [][Next]_vars

(***************************************************************************)
(* One request against every endpoint configuration, with every result     *)
(* and every error message: the specification of the response pipeline.    *)
(***************************************************************************)
SelectEndpoints ==
  {EndpointPlain, EndpointNone, EndpointAlternation, EndpointWildcard, EndpointContentType,
   EndpointUnsupported, EndpointTemplates, EndpointSameHeader, EndpointWholeBody}

SelectCalls ==
  {succeed(d) : d \in Data} \cup {fail(e) : e \in Errors \cup {NoErr}}
    \cup {done(e, d) : e \in {NoErr, Err("ab")}, d \in {Obj("http://x", NA)}}

InitSelect == InitWith(Runtimes, SelectEndpoints)

NextSelect ==
  \/ \E load \in Loads : RouteHandler(load, 1)
  \/ \E call \in SelectCalls, catches \in BOOLEAN : HandlerCalls(1, call, catches)
  \/ \E x \in Returns(Errors) : HandlerReturns(1, x)
  \/ \E error \in Errors : HandlerThrows(1, error)
  \/ \E call \in SelectCalls : AsyncCall(1, call)
  \/ \E data \in Data : PromiseResolves(1, data)
  \/ \E error \in Errors : PromiseRejects(1, error)
  \/ TimerFires(1)

SpecSelect == InitSelect /\ [][NextSelect]_vars

(***************************************************************************)
(* The plugin from before start(), with every runtime and every            *)
(* authorizer, and one request once the server listens.                    *)
(***************************************************************************)
requestState ==
  <<requests, currentRequestId, timers, responses, warnings, logs, handlers, uncaught>>

\* start() under Serverless version
Start(version) ==
  /\ process.phase = "new"
  /\ process' = Started(version, serviceRuntime, prefix, fun, epath, authorizer).process
  /\ server' = Started(version, serviceRuntime, prefix, fun, epath, authorizer).server
  /\ UNCHANGED <<options, serviceRuntime, fun, endpoint, authorizer, prefix, epath, requestState>>

AllRuntimes == Runtimes \cup {"python2.7"}

InitStart ==
  /\ options \in [noTimeout : BOOLEAN]
  /\ serviceRuntime \in AllRuntimes
  /\ fun \in Functions
  /\ endpoint \in {EndpointPlain, EndpointUnsupported}
  /\ authorizer \in Authorizers
  /\ prefix \in Prefixes
  /\ epath \in Paths
  /\ process = NewProcess
  /\ server = NewServer
  /\ NoRequests

NextStart ==
  \/ \E version \in Versions : Start(version)
  \/ \E load \in Loads : RouteHandler(load, 1)
  \/ \E call \in RaceCalls, catches \in BOOLEAN : HandlerCalls(1, call, catches)
  \/ \E x \in Returns(RaceErrors) : HandlerReturns(1, x)
  \/ \E error \in RaceErrors : HandlerThrows(1, error)
  \/ TimerFires(1)

SpecStart == InitStart /\ [][NextStart]_vars

(***************************************************************************)
(* Scheduling: Node runs an armed timer once its delay has passed, and a   *)
(* handler on the stack returns or throws.  Nothing obliges a handler to   *)
(* call done, succeed or fail, or a promise to settle.                     *)
(***************************************************************************)
HandlerLeaves(id) ==
  \/ \E x \in Returns(RaceErrors) : HandlerReturns(id, x)
  \/ \E error \in RaceErrors : HandlerThrows(id, error)

FairSpec ==
  /\ Spec
  /\ \A id \in Ids : WF_vars(TimerFires(id))
  /\ \A id \in Ids : WF_vars(HandlerLeaves(id))

(***************************************************************************)
(* Vocabulary of the properties.                                           *)
(***************************************************************************)
Sent(id) == responses[id].sent

Last(log) == log[Len(log)]

Arrived(id) == id \in DOMAIN requests

\* a call of done, succeed or fail reaches the callback of request id
CompletionCall(id, call) ==
  \/ \E catches \in BOOLEAN : HandlerCalls(id, call, catches)
  \/ AsyncCall(id, call)
  \/ call.op = "succeed" /\ PromiseResolves(id, call.data)
  \/ call.op = "fail" /\ PromiseRejects(id, call.err)

\* the entry of the timeout reply in the log of sent responses
IsTimeoutReply(entry) ==
  /\ entry.statusCode = 503
  /\ entry.source = TimeoutBody(fun.funName, fun.funTimeout)

(***************************************************************************)
(* C1.  For every request, whatever the handler does (synchronous or       *)
(* asynchronous completion calls, a synchronous throw, a promise) and      *)
(* whenever the timer fires, response.send() is called at most once.       *)
(***************************************************************************)
C1_SentAtMostOnce == \A id \in Ids : Len(Sent(id)) <= 1

(***************************************************************************)
(* C2.  With timeouts enabled, every request that entered the route        *)
(* handler eventually has a response sent.                                 *)
(***************************************************************************)
C2_EventuallyResponds ==
  \A id \in Ids : [](Arrived(id) /\ ~options.noTimeout => <>(Len(Sent(id)) > 0))

(***************************************************************************)
(* C3.  When the timer of a request fires while the request is pending     *)
(* (not done, nothing sent), that step marks the request done and sends    *)
(* the 503 response whose body names the function and its timeout.         *)
(***************************************************************************)
C3_TimerWhilePendingReplies503 ==
  [][\A id \in Ids :
       TimerFires(id) /\ ~requests[id].done /\ Sent(id) = <<>>
       => /\ requests'[id].done
          /\ Len(responses'[id].sent) = 1
          /\ IsTimeoutReply(responses'[id].sent[1])]_vars

(***************************************************************************)
(* C4.  When a completion and the firing of the timer both occur for one   *)
(* request, the response sent is that of the first of them, and the later  *)
(* one sends nothing and leaves the request's state as it is: a completion *)
(* after the timer has fired finds exactly the 503 sent and changes        *)
(* nothing; a timer that fires for a request already done changes nothing. *)
(***************************************************************************)
C4_FirstArrivalWins ==
  [][\A id \in Ids :
       /\ \A call \in RaceCalls :
            CompletionCall(id, call) /\ timers[id] = "called"
            => /\ Len(Sent(id)) = 1 /\ IsTimeoutReply(Sent(id)[1])
               /\ UNCHANGED <<requests, responses, timers>>
       /\ TimerFires(id) /\ requests[id].done
            => UNCHANGED <<requests, responses>>]_vars

(***************************************************************************)
(* C5.  A completion call that arrives after its request is done sends no  *)
(* response.  It logs exactly one "called twice" warning when the          *)
(* request's timer has not fired, and none when the timer has fired (the   *)
(* callback returns at its timeout check, before the warning).             *)
(***************************************************************************)
C5_LateCompletion ==
  [][\A id \in Ids : \A call \in RaceCalls :
       Arrived(id) /\ requests[id].done /\ CompletionCall(id, call)
       => /\ responses'[id].sent = Sent(id)
          /\ warnings'[id] = warnings[id] + (IF timers[id] = "called" THEN 0 ELSE 1)]_vars

\* C5 as stated: every completion call after a terminal state logs one warning
C5_LateCompletionAlwaysWarns ==
  [][\A id \in Ids : \A call \in RaceCalls :
       CompletionCall(id, call) /\ requests[id].done
       => /\ responses'[id].sent = Sent(id)
          /\ warnings'[id] = warnings[id] + 1]_vars

\* a second completion call has been answered by the warning, after one response
C5_Witness ==
  \E id \in Ids : warnings[id] = 1 /\ Len(Sent(id)) = 1 /\ Sent(id)[1].via = "callback"

(***************************************************************************)
(* C6.  When the timer of a request fires and currentRequestId is no       *)
(* longer that request's id, nothing is sent for any request and the       *)
(* entries of this.requests (done flag, timer handle) stay as they are.    *)
(***************************************************************************)
C6_StaleTimerIsNoOp ==
  [][\A id \in Ids :
       TimerFires(id) /\ currentRequestId # id
       => UNCHANGED <<requests, responses, warnings, currentRequestId>>]_vars

\* the timer of a pending request has fired after a newer request began
C6_Witness ==
  \E id \in Ids :
    /\ Arrived(id) /\ timers[id] = "called" /\ currentRequestId # id
    /\ ~requests[id].done /\ Sent(id) = <<>>

(***************************************************************************)
(* C7.  With timeouts disabled no request has a timer and no timeout       *)
(* reply is ever sent.                                                     *)
(***************************************************************************)
C7_NoTimeoutNoTimer ==
  options.noTimeout =>
    \A id \in Ids :
      /\ timers[id] = "none"
      /\ Arrived(id) => requests[id].timeout # "Timeout"
      /\ \A i \in 1..Len(Sent(id)) :
           Sent(id)[i].via # "_replyTimeout" /\ Sent(id)[i].statusCode # 503

\* timeouts are disabled and a handler has returned without completing
C7_Witness ==
  /\ options.noTimeout
  /\ \E id \in Ids : Arrived(id) /\ handlers[id].pc = "returned" /\ ~requests[id].done

(***************************************************************************)
(* C8.  A handler that throws synchronously is answered in that step by    *)
(* _reply500: status 200 and the synthetic error body {errorMessage:       *)
(* "Uncaught error in your '<function>' handler", errorType, stackTrace,   *)
(* offlineInfo}; the endpoint's response rules are not consulted.          *)
(***************************************************************************)
C8_ThrowRepliesSyntheticError ==
  [][\A id \in Ids : \A error \in RaceErrors :
       HandlerThrows(id, error)
       => /\ Len(responses'[id].sent) = Len(Sent(id)) + 1
          /\ Last(responses'[id].sent).statusCode = 200
          /\ Last(responses'[id].sent).source.errorMessage = UncaughtMessage(fun.funName)
          /\ Last(responses'[id].sent).source.errorType = error.type
          /\ Last(responses'[id].sent).source.offlineInfo # NA]_vars

\* C8 as stated: the thrown error goes through the failure branch of response selection
C8_ThrowUsesSelectedRule ==
  [][\A id \in Ids : \A error \in RaceErrors :
       HandlerThrows(id, error)
       => LET name == SelectResponseName(endpoint, error)
              rule == ResponseOf(endpoint, name)
          IN /\ Len(responses'[id].sent) = Len(Sent(id)) + 1
             /\ Last(responses'[id].sent).responseName = name
             /\ Last(responses'[id].sent).statusCode =
                  (IF rule.statusCode # 0 THEN rule.statusCode ELSE 200)
             /\ Last(responses'[id].sent).source.errorMessage = error.message]_vars

\* a handler threw and got the synthetic reply
C8_Witness ==
  \E id \in Ids :
    /\ handlers[id].pc = "threw"
    /\ Len(Sent(id)) = 1
    /\ Sent(id)[1].via = "_reply500"
    /\ Sent(id)[1].source.errorMessage = UncaughtMessage(fun.funName)
    /\ Sent(id)[1].source.errorType = "Error"

(***************************************************************************)
(* C9.  On a failure the response rules are scanned in their order,        *)
(* skipping "default"; the first rule whose selectionPattern (or, without  *)
(* one, its name) matches the whole error message is chosen, and if none   *)
(* matches "default" is chosen with the structured error as body.          *)
(***************************************************************************)
\* the regular expression matches the whole string
MatchesWhole(str, re) ==
  \E alt \in Alternatives(re) : MatchHere(alt \o <<"$">>, str, 0)

RECURSIVE FirstWholeMatch(_, _, _)
FirstWholeMatch(rules, errorMessage, i) ==
  IF i > Len(rules) THEN "default"
  ELSE LET key == rules[i][1]
           pattern == IF rules[i][2].selectionPattern # <<>>
                      THEN rules[i][2].selectionPattern ELSE Chars(key)
       IN IF key # "default" /\ MatchesWhole(Chars(errorMessage), pattern) THEN key
          ELSE FirstWholeMatch(rules, errorMessage, i + 1)

C9_FirstWholeMatchChosen ==
  \A id \in Ids : \A i \in 1..Len(Sent(id)) :
    LET entry == Sent(id)[i]
    IN entry.via = "callback" /\ entry.source.errorMessage # NA
       => /\ entry.responseName = FirstWholeMatch(endpoint.responses, entry.source.errorMessage, 1)
          /\ entry.source.errorType # NA /\ entry.source.stackTrace # NA

(***************************************************************************)
(* C10.  On a success the response used is always "default".  When the     *)
(* default rule has no statusCode and no response templates (or the        *)
(* endpoint has no responses), the response sent has status 200 and the    *)
(* raw result as body, and Content-Type application/json unless a response *)
(* parameter of the default rule sets the Content-Type header.             *)
(***************************************************************************)
DefaultUnconfigured(ep) ==
  \/ ~HasResponse(ep, "default")
  \/ /\ ResponseOf(ep, "default").statusCode = 0
     /\ ResponseOf(ep, "default").responseTemplates = <<>>

DefaultSetsContentType(ep) ==
  /\ HasResponse(ep, "default")
  /\ \E i \in 1..Len(ResponseOf(ep, "default").responseParameters) :
       LET key == ResponseOf(ep, "default").responseParameters[i].key
       IN Len(key) >= 4 /\ Lower(Join(SubSeq(key, 4, Len(key)))) = "content-type"

\* a completion call without error whose callback sends the response
SuccessSends(id, call) ==
  /\ CompletionCall(id, call)
  /\ ~CallArgs(call).err.truthy
  /\ Len(responses'[id].sent) = Len(Sent(id)) + 1
  /\ Last(responses'[id].sent).via = "callback"

C10_SuccessUsesDefault ==
  [][\A call \in SelectCalls :
       SuccessSends(1, call)
       => LET entry == Last(responses'[1].sent)
          IN /\ entry.responseName = "default"
             /\ DefaultUnconfigured(endpoint)
                => /\ entry.statusCode = 200
                   /\ entry.source = CallArgs(call).data
                   /\ ~DefaultSetsContentType(endpoint)
                      => entry.headers["content-type"] = "application/json"]_vars

\* C10 as stated: Content-Type is application/json whatever the response parameters
C10_SuccessAlwaysJson ==
  [][\A call \in SelectCalls :
       SuccessSends(1, call)
       => LET entry == Last(responses'[1].sent)
          IN /\ entry.responseName = "default"
             /\ DefaultUnconfigured(endpoint)
                => /\ entry.statusCode = 200
                   /\ entry.source = CallArgs(call).data
                   /\ entry.headers["content-type"] = "application/json"]_vars

\* a success answered with 200, the raw result and application/json
C10_Witness ==
  /\ DefaultUnconfigured(endpoint)
  /\ Len(Sent(1)) = 1
  /\ Sent(1)[1].via = "callback"
  /\ Sent(1)[1].responseName = "default"
  /\ Sent(1)[1].statusCode = 200
  /\ Sent(1)[1].source = Obj(NA, "hi")
  /\ Sent(1)[1].headers["content-type"] = "application/json"

(***************************************************************************)
(* Vocabulary of the properties about the response pipeline.               *)
(***************************************************************************)
\* the rule the callback works with for response name
ChosenRule(ep, name) == IF HasResponse(ep, name) THEN ResponseOf(ep, name) ELSE PlainRule

\* the result before the response templates: the data, or the structured error
RawResult(call) ==
  IF CallArgs(call).err.truthy THEN ErrorResult(CallArgs(call).err) ELSE CallArgs(call).data

\* a completion call whose callback sends the response
CallbackSends(id, call) ==
  /\ CompletionCall(id, call)
  /\ Len(responses'[id].sent) = Len(Sent(id)) + 1
  /\ Last(responses'[id].sent).via = "callback"

\* the indexes of the response parameters of rule that name header (in hapi's lowercase)
HeaderEntries(rule, name) ==
  {i \in 1..Len(rule.responseParameters) :
     LET key == rule.responseParameters[i].key
     IN Len(key) >= 4 /\ Lower(Join(SubSeq(key, 4, Len(key)))) = name}

(***************************************************************************)
(* C11.  Response templates: only the first-declared content type of the   *)
(* chosen rule is used.  When its template is non-empty the body sent is   *)
(* the rendered value and the content type is that key; when it is empty   *)
(* the body is the raw result and the content type stays application/json. *)
(* (Read with the benefit of C13 and C17: a rendering that fails and a     *)
(* Content-Type set by a response parameter are left out.)                 *)
(***************************************************************************)
C11_FirstTemplateOnly ==
  [][\A call \in SelectCalls :
       CallbackSends(1, call)
       => LET entry == Last(responses'[1].sent)
              rule == ChosenRule(endpoint, entry.responseName)
              first == rule.responseTemplates[1]
              free == HeaderEntries(rule, "content-type") = {}
          IN rule.responseTemplates # <<>>
             => IF first.template # ""
                THEN ~RenderFails(first.template)
                     => /\ entry.source = Rendered(first.template, RawResult(call))
                        /\ free => entry.headers["content-type"] = first.contentType
                ELSE /\ entry.source = RawResult(call)
                     /\ free => entry.headers["content-type"] = DefaultContentType]_vars

\* a completion call that finds its request neither done nor timed out: the callback
\* goes on to the response pipeline
ReachesPipeline(id, call) ==
  /\ CompletionCall(id, call)
  /\ ~requests[id].done
  /\ timers[id] # "called"

\* the rule chosen for a call
RuleFor(call) == ChosenRule(endpoint, SelectResponseName(endpoint, CallArgs(call).err))

\* the response parameters of rule whose source is integration.response.<not body>
UnsupportedSources(rule) ==
  {i \in 1..Len(rule.responseParameters) :
     LET value == rule.responseParameters[i].value
     IN /\ value.quotes = 0 /\ Len(value.segs) >= 2
        /\ value.segs[1] = "integration" /\ SegStartsWith(value.segs[2], "response")
        /\ ~(Len(value.segs) >= 3 /\ value.segs[3] = "body")}

(***************************************************************************)
(* C12.  When the chosen rule has a response parameter whose source begins *)
(* with integration.response but is not integration.response.body, the     *)
(* callback logs the warning, sets no header for that entry, and still     *)
(* sends the response with the rule's status code.                         *)
(***************************************************************************)
C12_UnsupportedSourceSkipped ==
  [][\A call \in SelectCalls :
       ReachesPipeline(1, call) /\ UnsupportedSources(RuleFor(call)) # {}
       => /\ CallbackSends(1, call)
          /\ UnsupportedRightHand \in logs'[1]
          /\ Last(responses'[1].sent).statusCode = StatusCode(RuleFor(call))
          /\ \A i \in UnsupportedSources(RuleFor(call)) :
               LET key == RuleFor(call).responseParameters[i].key
               IN Last(responses'[1].sent).headers[Lower(Join(SubSeq(key, 4, Len(key))))] = NA]_vars

\* the callback gets as far as rendering the first response template of the rule chosen
\* for call, and the rendering throws
RenderingFails(call) ==
  LET rule == RuleFor(call)
  IN /\ ~ProcessParameters(NewResponse, rule.responseParameters, RawResult(call), 1).threw.truthy
     /\ rule.responseTemplates # <<>>
     /\ rule.responseTemplates[1].template # ""
     /\ RenderFails(rule.responseTemplates[1].template)

(***************************************************************************)
(* C13.  When the rendering of the response template fails, the callback   *)
(* logs the error and in the same step sends the response, once, with the  *)
(* unrendered result as body and the status code of the chosen rule.       *)
(***************************************************************************)
C13_RenderFailureStillSends ==
  [][\A call \in SelectCalls :
       ReachesPipeline(1, call) /\ RenderingFails(call)
       => /\ CallbackSends(1, call)
          /\ Len(responses'[1].sent) = 1
          /\ Last(responses'[1].sent).source = RawResult(call)
          /\ Last(responses'[1].sent).statusCode = StatusCode(RuleFor(call))
          /\ ResponseTemplateError \in logs'[1]]_vars

\* the failure 'a' has been answered with status 400 and the structured error as body,
\* after the rendering of its template failed
C13_Witness ==
  /\ endpoint = EndpointTemplates
  /\ Len(Sent(1)) = 1
  /\ Sent(1)[1].via = "callback"
  /\ Sent(1)[1].responseName = "a"
  /\ Sent(1)[1].statusCode = 400
  /\ Sent(1)[1].source = ErrorResult(Err("a"))
  /\ ResponseTemplateError \in logs[1]

(***************************************************************************)
(* C14.  A request whose handler could not be loaded, or whose request     *)
(* template could not be rendered, has exactly one response sent, the      *)
(* synthetic error {errorMessage, errorType, stackTrace, offlineInfo} of    *)
(* _reply500; its handler is never invoked, it has no timer, and it is     *)
(* marked done.                                                            *)
(***************************************************************************)
C14_LoadFailureRepliesOnce ==
  \A id \in Ids :
    Arrived(id) /\ handlers[id].pc = "notInvoked"
    => /\ Len(Sent(id)) = 1
       /\ Sent(id)[1].via = "_reply500"
       /\ Sent(id)[1].source.errorMessage \in {LoadMessage(fun.funName), TemplateMessage("application/json", fun.funName)}
       /\ Sent(id)[1].source.errorType = LoadError.type
       /\ Sent(id)[1].source.stackTrace # NA
       /\ Sent(id)[1].source.offlineInfo = OfflineInfo
       /\ timers[id] = "none" /\ requests[id].timeout = "undefined"
       /\ handlers[id].promise = "none"
       /\ requests[id].done

\* the rendering of the request template failed for the second request
C14_Witness ==
  /\ Arrived(2) /\ handlers[2].pc = "notInvoked"
  /\ Len(Sent(2)) = 1
  /\ Sent(2)[1].source.errorMessage = TemplateMessage("application/json", fun.funName)

(***************************************************************************)
(* Vocabulary of the properties about start().                             *)
(***************************************************************************)
\* start() has run under a supported version of Serverless
StartedV1 == process.phase # "new" /\ UnsupportedVersion \notin process.log

\* the authorizer is remote, or names no function of the service
UnresolvedAuthorizer ==
  /\ authorizer.t # "undefined"
  /\ \/ authorizer.t = "object" /\ authorizer.arn # NA
     \/ authorizer.name \notin LocalFunctions

(***************************************************************************)
(* C15.  With a runtime that is not supported, start() logs a warning and  *)
(* registers no route for any function, but it does not terminate the      *)
(* process: the 404 route is created and the server listens; no request    *)
(* ever reaches a function.                                                *)
(***************************************************************************)
C15_UnsupportedRuntimeServesNoFunction ==
  StartedV1 /\ serviceRuntime \notin Runtimes
  => /\ process.phase = "running"
     /\ UnsupportedRuntimeWarning \in process.log
     /\ server.listening /\ server.notFoundRoute
     /\ server.routes = {}
     /\ requests = <<>>

\* C15 as stated: the process is terminated before the server listens
C15_UnsupportedRuntimeExits ==
  StartedV1 /\ serviceRuntime \notin Runtimes
  => /\ process.phase = "exited"
     /\ ~server.listening
     /\ requests = <<>>

\* start() has returned with the runtime python2.7
C15_Witness ==
  /\ serviceRuntime = "python2.7"
  /\ process.phase = "running"
  /\ server.listening

(***************************************************************************)
(* C16.  With a supported runtime, an endpoint whose authorizer has an arn  *)
(* or names a function the service does not define makes route             *)
(* registration end start(): the process is ended with one of the two      *)
(* messages of the authorizer, unless the computation of the full path has *)
(* thrown before the authorizer is looked at; either way no route is       *)
(* registered, the server never listens, and no request is served.         *)
(***************************************************************************)
C16_UnresolvedAuthorizerExits ==
  StartedV1 /\ serviceRuntime \in Runtimes /\ UnresolvedAuthorizer
  => /\ process.phase \in {"exited", "crashed"}
     /\ process.phase = "exited"
        <=> process.log \cap {NonLocalAuthorizer, NoAuthorizationFunction} # {}
     /\ process.phase = "crashed" <=> FullPath(_setOptions(prefix), epath).threw
     /\ server.routes = {}
     /\ ~server.listening
     /\ requests = <<>>

\* C16 as stated: whatever the runtime
C16_UnresolvedAuthorizerAlwaysExits ==
  StartedV1 /\ UnresolvedAuthorizer
  => /\ process.phase \in {"exited", "crashed"}
     /\ server.routes = {}
     /\ ~server.listening
     /\ requests = <<>>

\* start() ended the process on the authorizer { name: 'missing' }
C16_Witness ==
  /\ authorizer = Authorizer("object", NA, "missing")
  /\ serviceRuntime \in Runtimes
  /\ process = [phase |-> "exited", log |-> {NoAuthorizationFunction}]

\* the headers as the response parameters of the rule chosen for call leave them
AfterParameters(call) ==
  ProcessParameters(NewResponse, RuleFor(call).responseParameters, RawResult(call), 1).resp.headers

\* the content type the callback has computed: the first template's key, else the default
ResponseContentType(rule) ==
  IF rule.responseTemplates # <<>> THEN rule.responseTemplates[1].contentType
  ELSE DefaultContentType

(***************************************************************************)
(* C17.  In the response the callback sends, the Content-Type header is    *)
(* the response content type when no response parameter of the chosen rule *)
(* names Content-Type, and otherwise the value the response parameters     *)
(* gave it: finalization does not overwrite it.                            *)
(***************************************************************************)
C17_ContentTypeNotOverwritten ==
  [][\A call \in SelectCalls :
       CallbackSends(1, call)
       => LET entry == Last(responses'[1].sent)
          IN IF HeaderEntries(RuleFor(call), "content-type") = {}
             THEN entry.headers["content-type"] = ResponseContentType(RuleFor(call))
             ELSE entry.headers["content-type"] = AfterParameters(call)["content-type"]]_vars

\* the first of a non-empty set of indexes
First(indexes) == CHOOSE i \in indexes : \A j \in indexes : i <= j

\* the value the response parameter i of the rule chosen for call gives its header
ValueOfEntry(call, i, name) ==
  ProcessParameter(NewResponse, RuleFor(call).responseParameters[i], RawResult(call)).resp.headers[name]

(***************************************************************************)
(* C18.  In the response the callback sends, a header that several         *)
(* response parameters of the chosen rule name has the value of the first  *)
(* of these entries: a later entry does not overwrite it.  (Content-Type   *)
(* is left to C17.)                                                        *)
(***************************************************************************)
C18_EarlierEntryKept ==
  [][\A call \in SelectCalls :
       CallbackSends(1, call)
       => \A name \in HeaderNames \ {"content-type"} :
            HeaderEntries(RuleFor(call), name) # {}
            => Last(responses'[1].sent).headers[name] =
                 ValueOfEntry(call, First(HeaderEntries(RuleFor(call), name)), name)]_vars

\* the source of a response parameter begins with integration.response
FromIntegration(value) ==
  /\ value.quotes = 0 /\ Len(value.segs) >= 2
  /\ value.segs[1] = "integration" /\ SegStartsWith(value.segs[2], "response")

\* ... and it is integration.response.body[.path]
FromBody(value) == FromIntegration(value) /\ Len(value.segs) >= 3 /\ value.segs[3] = "body"

\* String(v): a value as a string
Stringified(v) ==
  CASE v.t = "string" -> v.text
    [] v.t = "object" -> "[object Object]"
    [] v.t = "null" -> "null"
    [] OTHER -> "undefined"

\* the value the claim gives the header of a response parameter
ClaimedHeaderValue(value, result) ==
  IF FromBody(value)
  THEN Stringified(IF Len(value.segs) >= 4
                   THEN jsonPath(result, SubSeq(value.segs, 4, Len(value.segs)))
                   ELSE result)
  ELSE Quoted(IF value.quotes > 0 THEN value.quotes - 1 ELSE 0, Join(value.segs))

(***************************************************************************)
(* C19.  When the callback processes the response parameters of the chosen *)
(* rule, an entry method.response.header.NAME whose source is              *)
(* integration.response.body[.path] sets header NAME to the string of the  *)
(* value at that path of the result (of the whole result without a path),  *)
(* and an entry whose source does not begin with integration.response sets *)
(* it to the source with one layer of quotes removed.  (Stated for the     *)
(* headers one entry only names, and without Content-Type: C17, C18.)      *)
(***************************************************************************)
C19_HeaderFromBodyOrLiteral ==
  [][\A call \in SelectCalls :
       ReachesPipeline(1, call)
       => \A name \in HeaderNames \ {"content-type"} :
            \A i \in HeaderEntries(RuleFor(call), name) :
              LET value == RuleFor(call).responseParameters[i].value
              IN /\ HeaderEntries(RuleFor(call), name) = {i}
                 /\ FromBody(value) \/ ~FromIntegration(value)
                 => responses'[1].headers[name] = ClaimedHeaderValue(value, RawResult(call))]_vars

(***************************************************************************)
(* C20.  The entry of a request in this.requests exists from the arrival   *)
(* of the request and is removed once its response has been sent: a        *)
(* request with a response sent has no entry.                              *)
(***************************************************************************)
C20_StateDestroyedAfterSend ==
  \A id \in Ids : Len(Sent(id)) > 0 => id \notin DOMAIN requests

(***************************************************************************)
(* C21.  Whenever the firing of a request's timer is ignored because       *)
(* currentRequestId is not that request's id, the request is already done  *)
(* and its response has been sent.                                         *)
(***************************************************************************)
C21_GuardSuppressesOnlyFinished ==
  [][\A id \in Ids :
       Arrived(id) /\ currentRequestId # id /\ TimerFires(id)
       => requests[id].done /\ Len(Sent(id)) > 0]_vars

\* the step sends a response for request id by way of via
SendsVia(id, via) ==
  /\ Len(responses'[id].sent) = Len(Sent(id)) + 1
  /\ Last(responses'[id].sent).via = via

(***************************************************************************)
(* C22.  The value a handler returns is followed up (its resolution or     *)
(* rejection completing the request) only when the runtime is babel and    *)
(* the request is not done when the handler returns.  Under every other    *)
(* runtime the return of a future or of any other value leaves the state   *)
(* of the request as it is, no resolution or rejection ever reaches the    *)
(* callback, and the callback sends a response only in the step of an      *)
(* explicit call of done, succeed or fail.                                 *)
(***************************************************************************)
C22_FutureOnlyUnderBabel ==
  [][\A id \in Ids :
       Arrived(id)
       => /\ \A x \in Returns(RaceErrors) :
               handlers[id].pc = "running" /\ HandlerReturns(id, x)
               => /\ handlers'[id].promise = "pending"
                     => serviceRuntime = "babel" /\ ~requests[id].done /\ x.kind = "promise"
                  /\ serviceRuntime # "babel"
                     => /\ requests'[id] = requests[id]
                        /\ responses'[id] = responses[id]
                        /\ timers'[id] = timers[id]
                        /\ handlers'[id].promise = "none"
          /\ handlers[id].promise # handlers'[id].promise /\ handlers'[id].promise = "settled"
             => serviceRuntime = "babel" /\ handlers[id].promise = "pending"
          /\ serviceRuntime # "babel" /\ SendsVia(id, "callback")
             => \E call \in RaceCalls :
                  \/ \E catches \in BOOLEAN : HandlerCalls(id, call, catches)
                  \/ AsyncCall(id, call)]_vars

\* under babel the resolution of the returned promise has completed the request
C22_Witness ==
  \E id \in Ids :
    /\ serviceRuntime = "babel"
    /\ handlers[id] = [pc |-> "returned", promise |-> "settled"]
    /\ Len(Sent(id)) = 1
    /\ Sent(id)[1].via = "callback"
    /\ Sent(id)[1].responseName = "default"

\* str without the "/" it ends with, if it ends with one
WithoutTrailingSlash(str) == IF endsWith(str) THEN SubSeq(str, 1, Len(str) - 1) ELSE str

\* the normalized prefix followed by the endpoint path without its leading "/"
PrefixThenPath ==
  _setOptions(prefix) \o (IF startsWith(epath) THEN Tail(epath) ELSE epath)

(***************************************************************************)
(* C23.  Whatever the prefix and the path of the endpoint (the runtime     *)
(* supported, the authorizer resolved), start() registers the route of the *)
(* endpoint: the prefix as normalized starts and ends with "/", the path   *)
(* of the route is that prefix followed by the path of the endpoint        *)
(* without its leading "/", less a "/" at its end, and it does not end     *)
(* with "/" unless it is "/".                                              *)
(***************************************************************************)
C23_RouteAtFullPath ==
  StartedV1 /\ serviceRuntime \in Runtimes /\ ~UnresolvedAuthorizer
  => /\ startsWith(_setOptions(prefix)) /\ endsWith(_setOptions(prefix))
     /\ process.phase = "running"
     /\ \E route \in server.routes :
          /\ route.funName = fun.funName
          /\ route.path \in {PrefixThenPath, WithoutTrailingSlash(PrefixThenPath)}
          /\ route.path = <<"/">> \/ ~endsWith(route.path)

(***************************************************************************)
(* C24.  A request that is done has no armed timer, so its timer does not  *)
(* fire and no timeout reply (503) is sent for it: the callback and        *)
(* _reply500 cancel the timer before they mark the request done, and       *)
(* _replyTimeout runs in the timer itself.                                 *)
(***************************************************************************)
C24_NoTimeoutReplyAfterDone ==
  /\ [](\A id \in Ids : Arrived(id) /\ requests[id].done => timers[id] # "armed")
  /\ [][\A id \in Ids :
         Arrived(id) /\ requests[id].done
         => /\ ~TimerFires(id)
            /\ Len(responses'[id].sent) > Len(Sent(id))
               => /\ Last(responses'[id].sent).via # "_replyTimeout"
                  /\ ~IsTimeoutReply(Last(responses'[id].sent))]_vars

\* the callback has answered the request in charge and cancelled its timer, which would
\* have replied had it fired
C24_Witness ==
  \E id \in Ids :
    /\ Arrived(id) /\ requests[id].done /\ currentRequestId = id
    /\ requests[id].timeout = "Timeout" /\ timers[id] = "cleared"
    /\ handlers[id].pc = "returned"
    /\ Len(Sent(id)) = 1 /\ Sent(id)[1].via = "callback"

====
